---- MODULE Spec2Model ----
(***************************************************************************)
(* A model of the Brite front end: the Document / Position coordinate      *)
(* model (old/old/src/source/document.rs) and the tolerant parser          *)
(* (src/source/parser.rs, src/source/mod.rs).                              *)
(*                                                                         *)
(* Nine specifications share  the module:                                  *)
(*   SpecDoc       - Document::new, Position::line, Position::character    *)
(*   SpecRange     - Range::new, Range::between, Range::start, Range::end  *)
(*   SpecChars     - the DocumentChars cursor of Document::chars           *)
(*   Spec          - Parser::parse driven by a pull-based lexer            *)
(*   SpecRecover   - Parser::recover applied to a parse function           *)
(*   SpecCommaList - Parser::parse_comma_list entered inside a call        *)
(*   SpecLex       - Lexer::tokens and the range assertions of parse       *)
(*   SpecGlyph     - Parser::try_parse_glyph and Parser::parse_glyph       *)
(*   SpecReport    - DiagnosticsCollection::report and is_empty            *)
(***************************************************************************)
EXTENDS Integers, Sequences, FiniteSets, TLC

(* ----------------------------- bounds ---------------------------------- *)

\* Longest text, in characters, a document is built from.
MaxChars == 3

\* How far beyond the end of the text a queried position may lie.
MaxBeyond == 2

\* Longest token stream, the end-of-input token not counted.
MaxTokens == 5

\* Longest token stream recover is applied to, the end-of-input token not
\* counted, and the highest count a glyph in scope starts with.
MaxSkipped == 2
MaxCount == 2

\* How far from 0 and from 2^16 - 1 the sampled 16-bit halves of a u32 lie.
MaxNear == 1

\* Most report calls made on one diagnostics collection.
MaxReports == 4

VARIABLES
    (* Parser and lexer *)
    tokens,       \* the tokens the lexer has produced so far, in order
    consumed,     \* how many of them Lexer::advance has handed out
    recoverable,  \* Parser.recoverable: glyph -> count
    stack,        \* the call stack of the parser, innermost frame last
    status,       \* "running", "done" or "panicked"
    fault,        \* the panic that ended the parse, if any
    module,       \* the Module returned by Parser::parse
    diagnostics,  \* the DiagnosticSet of source::parse
    (* Document *)
    src,          \* the characters of the String handed to Document::new
    text,         \* Document.text as UTF-8 bytes
    lines,        \* Document.lines
    built,        \* whether Document::new has run
    call,         \* the last Position query made and what it returned
    (* Range *)
    range,          \* the Range the last constructor returned
    rangeCall,      \* the last Range operation and what it returned
    overflowChecks, \* whether the build panics on integer overflow
    (* DocumentChars *)
    chars,        \* DocumentChars.chars: the byte offset its iterator is at
    position,     \* DocumentChars.position
    lookahead,    \* DocumentChars.lookahead
    returned,     \* the characters consuming calls have returned, in order
    ended,        \* whether advance or lookahead has returned no character
    charsCall,    \* the last cursor operation and what it returned
    (* DiagnosticsCollection; the collection itself is `diagnostics` *)
    reported,     \* the diagnostics passed to report so far, in call order
    reportCall    \* the last operation on the collection and what it returned

reportVars == <<reported, reportCall>>

rangeVars == <<range, rangeCall, overflowChecks>>

cursorVars == <<chars, position, lookahead, returned, ended, charsCall>>

docVars == <<src, text, lines, built, call, rangeVars, cursorVars, reportVars>>

parserVars ==
    <<tokens, consumed, recoverable, stack, status, fault, module, diagnostics>>

vars == <<parserVars, docVars>>

(* ------------------------- tokens -------------------------------------- *)

\* The glyphs the parser names (Glyph::... in parser.rs).
Glyphs == {"let", "=", ";", "_", "if", "else", "do", "{", "}", "(", ")",
           ".", ",", "true", "false"}

\* A token: its kind, its glyph (glyph tokens only), whether a line break
\* separates it from the token before, and its place in the document (the
\* start of its full range, counted in tokens).
Token(type, glyph, newline, at) ==
    [type |-> type, glyph |-> glyph, newline |-> newline, at |-> at]

NoToken == Token("None", "", FALSE, 0)

\* The tokens the lexer can produce at place `at`. The line-break flag is
\* read for `(` only (try_parse_glyph_on_same_line), so only `(` varies in it.
TokensAt(at) ==
    {Token("Identifier", "", FALSE, at), Token("Number", "", FALSE, at)}
    \cup {Token("Glyph", g, FALSE, at) : g \in Glyphs}
    \cup {Token("Glyph", "(", TRUE, at)}

EndAt(at) == Token("End", "", FALSE, at)

\* Token::is_end
IsEnd(t) == t.type = "End"

\* Token::is_glyph
IsGlyph(t, g) == t.type = "Glyph" /\ t.glyph = g

\* Mutant of Until: the top-level item list also stops at `}`.
UntilAlsoBrace(g, t) ==
    IF g = "End" THEN t.type = "End" \/ (t.type = "Glyph" /\ t.glyph = "}")
    ELSE t.type = "Glyph" /\ t.glyph = g

\* The `until` closures of parse_item_list and parse_comma_list, named by
\* the glyph they stop at ("End" for Token::is_end).
Until(g, t) == IF g = "End" THEN IsEnd(t) ELSE IsGlyph(t, g)

(* ------------------------- AST ----------------------------------------- *)

\* An AST node: its kind and its parts in source order; a token is a leaf.
Node(kind, kids) == [kind |-> kind, kids |-> kids, tok |-> NoToken]
Leaf(t) == [kind |-> "Token", kids |-> <<>>, tok |-> t]

\* Option::None where the AST holds an optional token or node.
None == Node("None", <<>>)

RECURSIVE IntoTokens(_)
RECURSIVE IntoTokensAll(_)
\* Module::into_tokens: the tokens a node holds, in order.
IntoTokens(node) ==
    IF node.kind = "Token" THEN <<node.tok>> ELSE IntoTokensAll(node.kids)
IntoTokensAll(nodes) ==
    IF nodes = <<>> THEN <<>>
    ELSE IntoTokens(Head(nodes)) \o IntoTokensAll(Tail(nodes))

(* ------------------------- lexer --------------------------------------- *)

\* What Lexer::lookahead can show next: the token already lexed and not yet
\* consumed, or, lexing on demand, any token of the document's next place;
\* the stream ends with one end-of-input token.
Lookaheads ==
    IF consumed < Len(tokens) THEN {tokens[consumed + 1]}
    ELSE IF Len(tokens) >= MaxTokens THEN {EndAt(Len(tokens) + 1)}
    ELSE TokensAt(Len(tokens) + 1) \cup {EndAt(Len(tokens) + 1)}

\* Lexer::lookahead showed t: the lexer has produced it.
Lexed(t) == IF consumed < Len(tokens) THEN tokens ELSE Append(tokens, t)

\* Lexer::lookahead_on_same_line: the lookahead, unless a line break
\* precedes it.
OnSameLine(t) == ~t.newline

(* ------------------------- recoverable map ----------------------------- *)

EmptyMap == [g \in {} |-> 0]

\* HashMap::insert / HashMap::remove
MapInsert(m, g, n) == [x \in DOMAIN m \cup {g} |-> IF x = g THEN n ELSE m[x]]
MapRemove(m, g) == [x \in DOMAIN m \ {g} |-> m[x]]

\* recover_at before f runs: the count of the glyph is raised by one.
ScopeEntered(m, g) ==
    IF g \in DOMAIN m THEN [m EXCEPT ![g] = @ + 1] ELSE MapInsert(m, g, 1)

\* Mutant of ScopeLeft: the entry is kept when its count reaches zero.
ScopeLeftKeepsEntry(m, g) ==
    IF g \in DOMAIN m THEN [m EXCEPT ![g] = @ - 1] ELSE m

\* Mutant of ScopeLeft: the glyph stays in scope.
ScopeNeverLeft(m, g) == m

\* Mutant of ScopeLeft: the entry is removed whatever its count.
ScopeLeftRemovesEntry(m, g) == IF g \in DOMAIN m THEN MapRemove(m, g) ELSE m

\* recover_at after f returned: the count is lowered by one and the entry
\* removed at zero.
ScopeLeft(m, g) ==
    IF g \in DOMAIN m
    THEN IF m[g] - 1 = 0 THEN MapRemove(m, g) ELSE [m EXCEPT ![g] = @ - 1]
    ELSE m

(* ------------------------- call stack ---------------------------------- *)

\* A frame: the function, the point it has reached, the parts of the node
\* it has gathered so far, its glyph argument (recover_at's glyph, the glyph
\* `until` stops at), its function argument, and for recover_at the map as
\* it was on entry.
Frame(fn, pc, glyph, f) ==
    [fn |-> fn, pc |-> pc, kids |-> <<>>, glyph |-> glyph, f |-> f,
     saved |-> EmptyMap]

Top == stack[Len(stack)]

At(fn, pc) ==
    /\ status = "running"
    /\ stack # <<>>
    /\ Top.fn = fn
    /\ Top.pc = pc

\* The stack with its top frame replaced.
WithTop(frame) == [stack EXCEPT ![Len(stack)] = frame]

\* The stack after `frame` replaced the top frame and called `callee`.
Calling(frame, callee) == Append(WithTop(frame), callee)

\* The stack after the top frame returned `node` to its caller.
Returning(node) ==
    LET rest == SubSeq(stack, 1, Len(stack) - 1)
    IN  IF rest = <<>> THEN rest
        ELSE [rest EXCEPT ![Len(rest)].kids = Append(@, node)]

\* The parser goes on with stack stk.
Continue(stk) ==
    /\ stack' = stk
    /\ UNCHANGED <<status, fault, module, diagnostics>>

\* unimplemented!() / unreachable!() / a failed assertion: the panic unwinds
\* every frame; nothing on the way restores the recoverable map.
Panic(what) ==
    /\ status' = "panicked"
    /\ fault' = what
    /\ stack' = <<>>
    /\ UNCHANGED <<module, diagnostics>>

\* A u32 as its two 16-bit halves.
U32(hi, lo) == [hi |-> hi, lo |-> lo]

Zero == U32(0, 0)

\* No Range has been constructed and no Range operation made.
RangeIdle ==
    /\ range = [start |-> Zero, length |-> Zero]
    /\ rangeCall = [op |-> "none", a |-> Zero, b |-> Zero, result |-> Zero,
                    panicked |-> FALSE]
    /\ overflowChecks = FALSE

\* No cursor has been taken from a document.
CursorIdle ==
    /\ chars = 0
    /\ position = 0
    /\ lookahead = <<>>
    /\ returned = <<>>
    /\ ended = FALSE
    /\ charsCall = [op |-> "none", c |-> "", result |-> ""]

\* No operation has been made on a diagnostics collection.
ReportIdle ==
    /\ reported = <<>>
    /\ reportCall = [op |-> "none", d |-> "", ref |-> [id |-> 0, value |-> ""],
                     result |-> FALSE]

\* The document variables, which the parser leaves alone.
DocIdle ==
    /\ src = <<>>
    /\ text = <<>>
    /\ lines = <<>>
    /\ built = FALSE
    /\ call = [op |-> "none", p |-> 0, result |-> 0]
    /\ RangeIdle
    /\ CursorIdle
    /\ ReportIdle

(* ------------------------- Parser -------------------------------------- *)

\* Parser::new, and Parser::parse about to call parse_module.
Init ==
    /\ tokens = <<>>
    /\ consumed = 0
    /\ recoverable = EmptyMap
    /\ stack = <<Frame("parse_module", "start", "", "")>>
    /\ status = "running"
    /\ fault = ""
    /\ module = None
    /\ diagnostics = <<>>
    /\ DocIdle

\* parse_module: parse all the items up to the end.
ParseModule ==
    /\ At("parse_module", "start")
    /\ Continue(Calling([Top EXCEPT !.pc = "end"],
                        Frame("parse_item_list", "loop", "End", "")))
    /\ UNCHANGED <<tokens, consumed, recoverable, docVars>>

\* The debug assertion of parse_module.
RecoverableIsEmpty(m) == DOMAIN m = {}

\* parse_module: consume the ending token, assert, return the module.
ParseModuleEnd ==
    /\ At("parse_module", "end")
    /\ \E t \in Lookaheads :
         /\ tokens' = Lexed(t)
         /\ consumed' = consumed + 1
         /\ IF ~IsEnd(t) THEN Panic("unreachable parser.rs:55")
            ELSE IF ~RecoverableIsEmpty(recoverable)
            THEN Panic("assertion failed parser.rs:58")
            ELSE /\ status' = "done"
                 /\ module' = Node("Module", Top.kids \o <<Leaf(t)>>)
                 /\ stack' = <<>>
                 /\ UNCHANGED <<fault, diagnostics>>
    /\ UNCHANGED <<recoverable, docVars>>

\* parse_item_list: one turn of the while loop.
ParseItemList ==
    /\ At("parse_item_list", "loop")
    /\ \E t \in Lookaheads :
         /\ tokens' = Lexed(t)
         /\ IF Until(Top.glyph, t)
            THEN Continue(Returning(Node("Items", Top.kids)))
            ELSE Continue(Calling(Top, Frame("parse_item", "start", "", "")))
    /\ UNCHANGED <<consumed, recoverable, docVars>>

\* parse_item: an item is a statement.
ParseItem ==
    /\ At("parse_item", "start")
    /\ Continue(WithTop(Frame("parse_statement", "start", "", "")))
    /\ UNCHANGED <<tokens, consumed, recoverable, docVars>>

\* parse_statement
ParseStatement ==
    /\ At("parse_statement", "start")
    /\ Continue(WithTop(Frame("recover_at", "enter", ";",
                              "actually_parse_statement")))
    /\ UNCHANGED <<tokens, consumed, recoverable, docVars>>

\* recover_at: bring the glyph into scope and run f.
RecoverAt ==
    /\ At("recover_at", "enter")
    /\ recoverable' = ScopeEntered(recoverable, Top.glyph)
    /\ Continue(Calling([Top EXCEPT !.pc = "exit", !.saved = recoverable],
                        Frame(Top.f, "start", "", "")))
    /\ UNCHANGED <<tokens, consumed, docVars>>

\* recover_at: f returned; take the glyph out of scope and return the result.
RecoverAtExit ==
    /\ At("recover_at", "exit")
    /\ recoverable' = ScopeLeft(recoverable, Top.glyph)
    /\ Continue(Returning(Top.kids[1]))
    /\ UNCHANGED <<tokens, consumed, docVars>>

\* actually_parse_statement: `let` starts a binding statement, anything
\* else an expression statement.
ActuallyParseStatement ==
    /\ At("actually_parse_statement", "start")
    /\ \E t \in Lookaheads :
         /\ tokens' = Lexed(t)
         /\ IF IsGlyph(t, "let")
            THEN /\ consumed' = consumed + 1
                 /\ Continue(Calling(
                        [Top EXCEPT !.pc = "equals", !.kids = <<Leaf(t)>>],
                        Frame("recover_at", "enter", "=", "parse_pattern")))
            ELSE /\ consumed' = consumed
                 /\ Continue(Calling([Top EXCEPT !.pc = "semicolon"],
                                     Frame("parse_expression", "start", "", "")))
    /\ UNCHANGED <<recoverable, docVars>>

\* parse_glyph: the token advanced over is the glyph, else unimplemented!().
GlyphParsed(t, g) == IsGlyph(t, g)

\* actually_parse_statement: the `=` of a binding, then its value.
BindingEquals ==
    /\ At("actually_parse_statement", "equals")
    /\ \E t \in Lookaheads :
         /\ tokens' = Lexed(t)
         /\ consumed' = consumed + 1
         /\ IF GlyphParsed(t, "=")
            THEN Continue(Calling(
                     [Top EXCEPT !.pc = "semicolon", !.kids = Append(@, Leaf(t))],
                     Frame("parse_expression", "start", "", "")))
            ELSE Panic("unimplemented parser.rs:295")
    /\ UNCHANGED <<recoverable, docVars>>

\* actually_parse_statement: the optional `;`, and the statement returned.
StatementSemicolon ==
    /\ At("actually_parse_statement", "semicolon")
    /\ \E t \in Lookaheads :
         /\ tokens' = Lexed(t)
         /\ LET kind == IF Len(Top.kids) = 1 THEN "ExpressionStatement"
                        ELSE "BindingStatement"
            IN  IF IsGlyph(t, ";")
                THEN /\ consumed' = consumed + 1
                     /\ Continue(Returning(Node(kind, Append(Top.kids, Leaf(t)))))
                ELSE /\ consumed' = consumed
                     /\ Continue(Returning(Node(kind, Append(Top.kids, None))))
    /\ UNCHANGED <<recoverable, docVars>>

\* parse_pattern
ParsePattern ==
    /\ At("parse_pattern", "start")
    /\ \E t \in Lookaheads :
         /\ tokens' = Lexed(t)
         /\ consumed' = consumed + 1
         /\ IF t.type = "Identifier"
            THEN Continue(Returning(Node("VariablePattern", <<Leaf(t)>>)))
            ELSE IF IsGlyph(t, "_")
            THEN Continue(Returning(Node("HolePattern", <<Leaf(t)>>)))
            ELSE IF t.type = "Glyph" THEN Panic("unimplemented parser.rs:210")
            ELSE Panic("unimplemented parser.rs:213")
    /\ UNCHANGED <<recoverable, docVars>>

\* Mutant of ParseExpression: at the end of input an empty error node is
\* returned and nothing is consumed.
ParseExpressionReturnsAtEnd ==
    /\ At("parse_expression", "start")
    /\ \E t \in Lookaheads :
         /\ tokens' = Lexed(t)
         /\ consumed' = IF IsEnd(t) THEN consumed ELSE consumed + 1
         /\ IF IsEnd(t) THEN Continue(Returning(Node("Error", <<>>)))
            ELSE IF t.type = "Identifier"
            THEN Continue(WithTop([Top EXCEPT !.pc = "extensions",
                     !.kids = <<Node("VariableExpression", <<Leaf(t)>>)>>]))
            ELSE IF t.type = "Number"
            THEN Continue(WithTop([Top EXCEPT !.pc = "extensions",
                     !.kids = <<Node("NumberConstant", <<Leaf(t)>>)>>]))
            ELSE IF IsGlyph(t, "true") \/ IsGlyph(t, "false")
            THEN Continue(WithTop([Top EXCEPT !.pc = "extensions",
                     !.kids = <<Node("BooleanConstant", <<Leaf(t)>>)>>]))
            ELSE IF IsGlyph(t, "if")
            THEN Continue(Calling(
                     [Top EXCEPT !.pc = "consequent", !.kids = <<Leaf(t)>>],
                     Frame("parse_expression", "start", "", "")))
            ELSE IF IsGlyph(t, "do")
            THEN Continue(Calling(
                     [Top EXCEPT !.pc = "block", !.kids = <<Leaf(t)>>],
                     Frame("parse_block", "start", "", "")))
            ELSE IF IsGlyph(t, "(")
            THEN Continue(Calling(
                     [Top EXCEPT !.pc = "paren_right", !.kids = <<Leaf(t)>>],
                     Frame("parse_expression", "start", "", "")))
            ELSE IF t.type = "Glyph" THEN Panic("unimplemented parser.rs:163")
            ELSE Panic("unimplemented parser.rs:166")
    /\ UNCHANGED <<recoverable, docVars>>

\* parse_expression: the token advanced over decides the expression.
ParseExpression ==
    /\ At("parse_expression", "start")
    /\ \E t \in Lookaheads :
         /\ tokens' = Lexed(t)
         /\ consumed' = consumed + 1
         /\ IF t.type = "Identifier"
            THEN Continue(WithTop([Top EXCEPT !.pc = "extensions",
                     !.kids = <<Node("VariableExpression", <<Leaf(t)>>)>>]))
            ELSE IF t.type = "Number"
            THEN Continue(WithTop([Top EXCEPT !.pc = "extensions",
                     !.kids = <<Node("NumberConstant", <<Leaf(t)>>)>>]))
            ELSE IF IsGlyph(t, "true") \/ IsGlyph(t, "false")
            THEN Continue(WithTop([Top EXCEPT !.pc = "extensions",
                     !.kids = <<Node("BooleanConstant", <<Leaf(t)>>)>>]))
            ELSE IF IsGlyph(t, "if")
            THEN Continue(Calling(
                     [Top EXCEPT !.pc = "consequent", !.kids = <<Leaf(t)>>],
                     Frame("parse_expression", "start", "", "")))
            ELSE IF IsGlyph(t, "do")
            THEN Continue(Calling(
                     [Top EXCEPT !.pc = "block", !.kids = <<Leaf(t)>>],
                     Frame("parse_block", "start", "", "")))
            ELSE IF IsGlyph(t, "(")
            THEN Continue(Calling(
                     [Top EXCEPT !.pc = "paren_right", !.kids = <<Leaf(t)>>],
                     Frame("parse_expression", "start", "", "")))
            ELSE IF t.type = "Glyph" THEN Panic("unimplemented parser.rs:163")
            ELSE Panic("unimplemented parser.rs:166")
    /\ UNCHANGED <<recoverable, docVars>>

\* parse_expression, conditional: the test is parsed; parse the consequent.
ConditionalConsequent ==
    /\ At("parse_expression", "consequent")
    /\ Continue(Calling([Top EXCEPT !.pc = "alternate"],
                        Frame("parse_block", "start", "", "")))
    /\ UNCHANGED <<tokens, consumed, recoverable, docVars>>

\* parse_expression, conditional: the optional `else` and its block.
ConditionalAlternate ==
    /\ At("parse_expression", "alternate")
    /\ \E t \in Lookaheads :
         /\ tokens' = Lexed(t)
         /\ IF IsGlyph(t, "else")
            THEN /\ consumed' = consumed + 1
                 /\ Continue(Calling(
                        [Top EXCEPT !.pc = "block", !.kids = Append(@, Leaf(t))],
                        Frame("parse_block", "start", "", "")))
            ELSE /\ consumed' = consumed
                 /\ Continue(WithTop([Top EXCEPT !.pc = "extensions",
                        !.kids = <<Node("ConditionalExpression",
                                        Append(Top.kids, None))>>]))
    /\ UNCHANGED <<recoverable, docVars>>

\* parse_expression: the block of `do`, or of `else`, is parsed; build the
\* BlockExpression or the ConditionalExpression.
ExpressionBlock ==
    /\ At("parse_expression", "block")
    /\ LET kind == IF IsGlyph(Top.kids[1].tok, "do") THEN "BlockExpression"
                   ELSE "ConditionalExpression"
       IN  Continue(WithTop([Top EXCEPT !.pc = "extensions",
                                        !.kids = <<Node(kind, Top.kids)>>]))
    /\ UNCHANGED <<tokens, consumed, recoverable, docVars>>

\* parse_expression, wrapped: the `)` after the inner expression.
WrappedParenRight ==
    /\ At("parse_expression", "paren_right")
    /\ \E t \in Lookaheads :
         /\ tokens' = Lexed(t)
         /\ consumed' = consumed + 1
         /\ IF GlyphParsed(t, ")")
            THEN Continue(WithTop([Top EXCEPT !.pc = "extensions",
                     !.kids = <<Node("WrappedExpression",
                                     Append(Top.kids, Leaf(t)))>>]))
            ELSE Panic("unimplemented parser.rs:295")
    /\ UNCHANGED <<recoverable, docVars>>

\* parse_expression: one turn of the extension loop.
ExpressionExtensions ==
    /\ At("parse_expression", "extensions")
    /\ \E t \in Lookaheads :
         /\ tokens' = Lexed(t)
         /\ IF IsGlyph(t, ".")
            THEN /\ consumed' = consumed + 1
                 /\ Continue(WithTop([Top EXCEPT !.pc = "property",
                                                 !.kids = Append(@, Leaf(t))]))
            ELSE IF OnSameLine(t) /\ IsGlyph(t, "(")
            THEN /\ consumed' = consumed + 1
                 /\ Continue(Calling(
                        [Top EXCEPT !.pc = "arguments", !.kids = Append(@, Leaf(t))],
                        Frame("parse_comma_list", "loop", ")", "parse_expression")))
            ELSE /\ consumed' = consumed
                 /\ Continue(Returning(Top.kids[1]))
    /\ UNCHANGED <<recoverable, docVars>>

\* parse_expression, property: parse_identifier after the dot.
PropertyIdentifier ==
    /\ At("parse_expression", "property")
    /\ \E t \in Lookaheads :
         /\ tokens' = Lexed(t)
         /\ consumed' = consumed + 1
         /\ IF t.type = "Identifier"
            THEN Continue(WithTop([Top EXCEPT !.pc = "extensions",
                     !.kids = <<Node("PropertyExpression",
                                     Append(Top.kids, Leaf(t)))>>]))
            ELSE Panic("unimplemented parser.rs:303")
    /\ UNCHANGED <<recoverable, docVars>>

\* parse_expression, call: the `)` after the arguments.
CallParenRight ==
    /\ At("parse_expression", "arguments")
    /\ \E t \in Lookaheads :
         /\ tokens' = Lexed(t)
         /\ consumed' = consumed + 1
         /\ IF GlyphParsed(t, ")")
            THEN Continue(WithTop([Top EXCEPT !.pc = "extensions",
                     !.kids = <<Node("CallExpression",
                                     Append(Top.kids, Leaf(t)))>>]))
            ELSE Panic("unimplemented parser.rs:295")
    /\ UNCHANGED <<recoverable, docVars>>

\* parse_block: the `{` and the items.
ParseBlock ==
    /\ At("parse_block", "start")
    /\ \E t \in Lookaheads :
         /\ tokens' = Lexed(t)
         /\ consumed' = consumed + 1
         /\ IF GlyphParsed(t, "{")
            THEN Continue(Calling(
                     [Top EXCEPT !.pc = "brace_right", !.kids = <<Leaf(t)>>],
                     Frame("parse_item_list", "loop", "}", "")))
            ELSE Panic("unimplemented parser.rs:295")
    /\ UNCHANGED <<recoverable, docVars>>

\* parse_block: the `}`.
BlockBraceRight ==
    /\ At("parse_block", "brace_right")
    /\ \E t \in Lookaheads :
         /\ tokens' = Lexed(t)
         /\ consumed' = consumed + 1
         /\ IF GlyphParsed(t, "}")
            THEN Continue(Returning(Node("Block", Append(Top.kids, Leaf(t)))))
            ELSE Panic("unimplemented parser.rs:295")
    /\ UNCHANGED <<recoverable, docVars>>

\* Mutant of ParseCommaList: the terminator is looked for before the first
\* item only, not again after a comma.
ParseCommaListNoRecheck ==
    /\ At("parse_comma_list", "loop")
    /\ \E t \in Lookaheads :
         /\ tokens' = Lexed(t)
         /\ IF Until(Top.glyph, t) /\ Top.kids = <<>>
            THEN Continue(Returning(Node("CommaList", Top.kids)))
            ELSE Continue(Calling([Top EXCEPT !.pc = "comma"],
                                  Frame(Top.f, "start", "", "")))
    /\ UNCHANGED <<consumed, recoverable, docVars>>

\* parse_comma_list: the test of the while loop, and the next item.
ParseCommaList ==
    /\ At("parse_comma_list", "loop")
    /\ \E t \in Lookaheads :
         /\ tokens' = Lexed(t)
         /\ IF Until(Top.glyph, t)
            THEN Continue(Returning(Node("CommaList", Top.kids)))
            ELSE Continue(Calling([Top EXCEPT !.pc = "comma"],
                                  Frame(Top.f, "start", "", "")))
    /\ UNCHANGED <<consumed, recoverable, docVars>>

\* parse_comma_list: after an item, its comma, or the end of the list.
CommaListComma ==
    /\ At("parse_comma_list", "comma")
    /\ \E t \in Lookaheads :
         /\ tokens' = Lexed(t)
         /\ LET n     == Len(Top.kids)
                item  == Top.kids[n]
                items == SubSeq(Top.kids, 1, n - 1)
            IN  IF IsGlyph(t, ",")
                THEN /\ consumed' = consumed + 1
                     /\ Continue(WithTop([Top EXCEPT !.pc = "loop",
                            !.kids = Append(items,
                                Node("CommaListItem", <<item, Leaf(t)>>))]))
                ELSE IF Until(Top.glyph, t)
                THEN /\ consumed' = consumed
                     /\ Continue(Returning(Node("CommaList",
                            Append(items, Node("CommaListItem", <<item, None>>)))))
                ELSE /\ consumed' = consumed
                     /\ Panic("unimplemented parser.rs:250")
    /\ UNCHANGED <<recoverable, docVars>>

Next ==
    \/ ParseModule
    \/ ParseModuleEnd
    \/ ParseItemList
    \/ ParseItem
    \/ ParseStatement
    \/ RecoverAt
    \/ RecoverAtExit
    \/ ActuallyParseStatement
    \/ BindingEquals
    \/ StatementSemicolon
    \/ ParsePattern
    \/ ParseExpression
    \/ ConditionalConsequent
    \/ ConditionalAlternate
    \/ ExpressionBlock
    \/ WrappedParenRight
    \/ ExpressionExtensions
    \/ PropertyIdentifier
    \/ CallParenRight
    \/ ParseBlock
    \/ BlockBraceRight
    \/ ParseCommaList
    \/ CommaListComma

Spec == Init /\ [][Next]_vars

(* ------------------------- Parser::recover ----------------------------- *)

\* The glyphs g of the parse functions |p| p.try_parse_glyph(g) that recover
\* is applied to, and the glyphs in scope when it is called.
RecoverParses == {";", ")", "let"}
ScopeGlyphs == {";", "="}

\* The recoverable maps recover is entered with: any set of glyphs in
\* scope, each with a count from 1 to MaxCount.
RecoverMaps ==
    UNION {[S -> 1..MaxCount] : S \in SUBSET ScopeGlyphs}

\* What Lexer::lookahead can show next to recover.
RecoverLookaheads ==
    IF consumed < Len(tokens) THEN {tokens[consumed + 1]}
    ELSE IF Len(tokens) >= MaxSkipped THEN {EndAt(Len(tokens) + 1)}
    ELSE TokensAt(Len(tokens) + 1) \cup {EndAt(Len(tokens) + 1)}

\* The test of the skip loop: recover at the end, or at a glyph in scope.
RecoverHere(t, m) ==
    \/ IsEnd(t)
    \/ t.type = "Glyph" /\ t.glyph \in DOMAIN m

InitRecover ==
    /\ tokens = <<>>
    /\ consumed = 0
    /\ recoverable \in RecoverMaps
    /\ \E g \in RecoverParses :
         stack = <<Frame("recover", "start", g, "try_parse_glyph")>>
    /\ status = "running"
    /\ fault = ""
    /\ module = None
    /\ diagnostics = <<>>
    /\ DocIdle

\* recover: the shortcut, parse(self) at once.
Recover ==
    /\ At("recover", "start")
    /\ \E t \in RecoverLookaheads :
         /\ tokens' = Lexed(t)
         /\ IF IsGlyph(t, Top.glyph)
            THEN /\ consumed' = consumed + 1
                 /\ status' = "done"
                 /\ module' = Leaf(t)
                 /\ stack' = <<>>
                 /\ UNCHANGED <<fault, diagnostics>>
            ELSE /\ consumed' = consumed
                 /\ Continue(WithTop([Top EXCEPT !.pc = "loop"]))
    /\ UNCHANGED <<recoverable, docVars>>

\* recover: one turn of the skip loop, up to the token skipped.
RecoverSkip ==
    /\ At("recover", "loop")
    /\ \E t \in RecoverLookaheads :
         /\ tokens' = Lexed(t)
         /\ IF RecoverHere(t, recoverable)
            THEN /\ consumed' = consumed
                 /\ Panic("unimplemented parser.rs:350")
            ELSE /\ consumed' = consumed + 1
                 /\ Continue(WithTop([Top EXCEPT !.pc = "retry",
                                                 !.kids = Append(@, Leaf(t))]))
    /\ UNCHANGED <<recoverable, docVars>>

\* recover: parse(self) again after a token was skipped.
RecoverRetry ==
    /\ At("recover", "retry")
    /\ \E t \in RecoverLookaheads :
         /\ tokens' = Lexed(t)
         /\ IF IsGlyph(t, Top.glyph)
            THEN /\ consumed' = consumed + 1
                 /\ Panic("unimplemented parser.rs:355")
            ELSE /\ consumed' = consumed
                 /\ Continue(WithTop([Top EXCEPT !.pc = "loop"]))
    /\ UNCHANGED <<recoverable, docVars>>

NextRecover == Recover \/ RecoverSkip \/ RecoverRetry

SpecRecover == InitRecover /\ [][NextRecover]_vars

(* ------------------------- Parser claims ------------------------------- *)

\* C1: round-trip law: for every document the parser returns a Module, and
\* the tokens obtained by walking it are the tokens the lexer produced, in
\* order.
C1_RoundTrip ==
    status # "running" => (status = "done" /\ IntoTokens(module) = tokens)

\* C2: a syntactic error is never fatal: Parser::parse never panics; an
\* unexpected token ends in a diagnostic and a placeholder node, and the
\* parse goes on.
C2_SyntaxErrorNeverFatal == status \in {"running", "done"} /\ fault = ""

\* C3: the skip loop of recover terminates by returning a node, for every
\* token stream and parse function.
C3_RecoverReturnsNode ==
    status # "running" => (status = "done" /\ module # None)

\* C4: when the lookahead is the end-of-input token or a glyph in the
\* recoverable set, recover stops skipping, returns an error node covering
\* the tokens skipped so far, and leaves that token as the lexer's next one.
C4_RecoverStopsAtSyncPoint ==
    (/\ status # "running"
     /\ consumed < Len(tokens)
     /\ RecoverHere(tokens[consumed + 1], recoverable))
    => /\ status = "done"
       /\ module.kind = "Error"
       /\ IntoTokens(module) = SubSeq(tokens, 1, consumed)

\* C5: recover_at is balanced on every exit path: whenever a recover_at
\* frame is left, by return or by the failure of f, the recoverable map is
\* the map recover_at was entered with.
C5_RecoverAtBalanced ==
    [][\A i \in 1..Len(stack) :
          (stack[i].fn = "recover_at" /\ stack[i].pc = "exit" /\ i > Len(stack'))
          => recoverable' = stack[i].saved]_vars

\* C6: when parse_module has consumed the end-of-input token the
\* recoverable map is empty: the debug assertion never fails.
C6_RecoverableEmptyAtEnd ==
    /\ fault # "assertion failed parser.rs:58"
    /\ status = "done" => recoverable = EmptyMap

\* C6 witness: a parse that completed after a binding statement, whose two
\* scopes (`;` and `=`) were entered and left.
C6_Witness ==
    /\ status = "done"
    /\ \E i \in 1..Len(module.kids[1].kids) :
         module.kids[1].kids[i].kind = "BindingStatement"

\* The token stream `let = 1 ;` end, as far as it has been lexed.
IsLetEquals ==
    /\ Len(tokens) >= 2
    /\ IsGlyph(tokens[1], "let")
    /\ IsGlyph(tokens[2], "=")
    /\ Len(tokens) >= 3 => tokens[3].type = "Number"
    /\ Len(tokens) >= 4 => IsGlyph(tokens[4], ";")
    /\ Len(tokens) >= 5 => IsEnd(tokens[5])

\* C7: for `let = 1 ;` the pattern parse does not consume `=`: it yields a
\* zero-width error pattern, one diagnostic is reported, and `=`, the value
\* and `;` are parsed into a complete binding statement.
C7_MissingPatternRecovered ==
    IsLetEquals =>
        /\ status # "panicked"
        /\ At("actually_parse_statement", "equals") =>
               (consumed = 1 /\ Top.kids[2] = Node("ErrorPattern", <<>>))
        /\ status = "done" =>
               /\ Len(diagnostics) = 1
               /\ module = Node("Module",
                     <<Node("Items",
                         <<Node("BindingStatement",
                             <<Leaf(tokens[1]),
                               Node("ErrorPattern", <<>>),
                               Leaf(tokens[2]),
                               Node("NumberConstant", <<Leaf(tokens[3])>>),
                               Leaf(tokens[4])>>)>>),
                       Leaf(tokens[5])>>)

\* The parser variables, which the document operations leave alone.
ParserIdle ==
    /\ tokens = <<>>
    /\ consumed = 0
    /\ recoverable = EmptyMap
    /\ stack = <<>>
    /\ status = "idle"
    /\ fault = ""
    /\ module = None
    /\ diagnostics = <<>>

(* ------------------------- UTF-8 text ---------------------------------- *)

\* The characters texts are drawn from: an ASCII letter, the two newline
\* characters, and one character of each multi-byte width (U+00DF, U+4E01,
\* U+1F701, the characters of tests::position_character).
Chars == {"a", "LF", "CR", "U00DF", "U4E01", "U1F701"}

\* A character's UTF-8 encoding.
Utf8(c) ==
    CASE c = "a"      -> <<97>>
      [] c = "LF"     -> <<10>>
      [] c = "CR"     -> <<13>>
      [] c = "U00DF"  -> <<195, 159>>
      [] c = "U4E01"  -> <<228, 184, 129>>
      [] c = "U1F701" -> <<240, 159, 156, 129>>

\* char::len_utf8
LenUtf8(c) == Len(Utf8(c))

\* char::len_utf16 of a character of Chars: 2 outside the basic plane.
LenUtf16(c) == IF c = "U1F701" THEN 2 ELSE 1

RECURSIVE Encode(_)
\* The bytes of a String, character by character.
Encode(s) == IF s = <<>> THEN <<>> ELSE Utf8(Head(s)) \o Encode(Tail(s))

RECURSIVE StringsOfLen(_)
StringsOfLen(n) ==
    IF n = 0 THEN {<<>>}
    ELSE {Append(s, c) : s \in StringsOfLen(n - 1), c \in Chars}

Strings == UNION {StringsOfLen(n) : n \in 0..MaxChars}

ByteLF == 10
ByteCR == 13

(* ------------------------- Document::new ------------------------------- *)

\* The `\r` arm's test for a following `\n`, at index i (already advanced
\* past the `\r`): bytes[i] is the model's bytes[i + 1].
CrSkipsLf(bytes, i) == i + 1 < Len(bytes) /\ bytes[i + 1] = ByteLF

RECURSIVE ScanLines(_, _, _)
\* The while loop of Document::new: i is the 0-based byte index, acc the
\* line starts pushed so far.
ScanLines(bytes, i, acc) ==
    IF ~(i < Len(bytes)) THEN acc
    ELSE LET byte == bytes[i + 1]
             i1   == i + 1
         IN  IF byte = ByteLF THEN ScanLines(bytes, i1, Append(acc, i1))
             ELSE IF byte = ByteCR THEN
                 LET i2 == IF CrSkipsLf(bytes, i1) THEN i1 + 1 ELSE i1
                 IN  ScanLines(bytes, i2, Append(acc, i2))
             ELSE ScanLines(bytes, i1, acc)

\* Mutant of DocumentLines: the first line gets an entry too.
DocumentLinesFromZero(bytes) == ScanLines(bytes, 0, <<0>>)

DocumentLines(bytes) == ScanLines(bytes, 0, <<>>)

(* ------------------------- Position::line ------------------------------ *)

RECURSIVE BinarySearch(_, _, _, _)
\* slice::binary_search over s[left..right) (0-based): <<TRUE, i>> for Ok(i),
\* <<FALSE, i>> for Err(i).
BinarySearch(s, x, left, right) ==
    IF ~(left < right) THEN <<FALSE, left>>
    ELSE LET mid == left + ((right - left) \div 2)
         IN  IF s[mid + 1] < x THEN BinarySearch(s, x, mid + 1, right)
             ELSE IF s[mid + 1] > x THEN BinarySearch(s, x, left, mid)
             ELSE <<TRUE, mid>>

\* Mutant of LineOfHit: an exact hit reported as the line before.
LineOfHitNoIncrement(line) == line

\* The Ok arm of Position::line.
LineOfHit(line) == line + 1

\* Position::line
PositionLine(p, ls) ==
    LET r == BinarySearch(ls, p, 0, Len(ls))
    IN  IF r[1] THEN LineOfHit(r[2]) ELSE r[2]

(* ------------------------- Position::character ------------------------- *)

IsContinuation(b) == b >= 128 /\ b < 192

\* The length of the sequence a lead byte announces (0: not a lead byte).
WidthOfLead(b) ==
    IF b < 128 THEN 1
    ELSE IF b >= 192 /\ b < 224 THEN 2
    ELSE IF b >= 224 /\ b < 240 THEN 3
    ELSE IF b >= 240 /\ b < 248 THEN 4
    ELSE 0

RECURSIVE ContinuationRun(_, _, _)
\* How many continuation bytes, at most n, stand at bytes[k..].
ContinuationRun(bytes, k, n) ==
    IF n = 0 \/ k > Len(bytes) \/ ~IsContinuation(bytes[k]) THEN 0
    ELSE 1 + ContinuationRun(bytes, k + 1, n - 1)

\* Mutant of Utf16OfWidth: characters counted, not UTF-16 units.
Utf16OfWidthCountsChars(w) == 1

\* The UTF-16 length of a decoded character whose UTF-8 sequence has width w.
Utf16OfWidth(w) == IF w = 4 THEN 2 ELSE 1

RECURSIVE LossyUtf16PerByte(_, _)
\* Mutant of LossyUtf16: every byte of a truncated sequence decodes to its
\* own U+FFFD.
LossyUtf16PerByte(bytes, k) ==
    IF k > Len(bytes) THEN 0
    ELSE LET w == WidthOfLead(bytes[k])
         IN  IF w = 0 THEN 1 + LossyUtf16PerByte(bytes, k + 1)
             ELSE LET got == ContinuationRun(bytes, k + 1, w - 1)
                  IN  IF got = w - 1
                      THEN Utf16OfWidth(w) + LossyUtf16PerByte(bytes, k + w)
                      ELSE 1 + got + LossyUtf16PerByte(bytes, k + 1 + got)

RECURSIVE LossyUtf16(_, _)
\* String::from_utf8_lossy(bytes[k..]).chars().map(len_utf16).sum(): a
\* complete sequence decodes to its character; a stray continuation byte
\* and a truncated sequence each decode to one U+FFFD (one UTF-16 unit).
LossyUtf16(bytes, k) ==
    IF k > Len(bytes) THEN 0
    ELSE LET w == WidthOfLead(bytes[k])
         IN  IF w = 0 THEN 1 + LossyUtf16(bytes, k + 1)
             ELSE LET got == ContinuationRun(bytes, k + 1, w - 1)
                  IN  IF got = w - 1
                      THEN Utf16OfWidth(w) + LossyUtf16(bytes, k + w)
                      ELSE 1 + LossyUtf16(bytes, k + 1 + got)

\* Position::character
PositionCharacter(p, bytes, ls) ==
    LET line  == PositionLine(p, ls)
        start == IF line = 0 THEN 0 ELSE ls[line]
        end   == p
    IN  IF start >= Len(bytes) THEN end - Len(bytes)
        ELSE IF end > Len(bytes)
             THEN (end - Len(bytes))
                  + LossyUtf16(SubSeq(bytes, start + 1, Len(bytes)), 1)
        ELSE LossyUtf16(SubSeq(bytes, start + 1, end), 1)

(* ------------------------- SpecDoc ------------------------------------- *)

NoCall == [op |-> "none", p |-> 0, result |-> 0]

Positions == 0..(MaxChars * 4 + MaxBeyond)

InitDoc ==
    /\ src \in Strings
    /\ text = Encode(src)
    /\ lines = <<>>
    /\ built = FALSE
    /\ call = NoCall
    /\ RangeIdle
    /\ CursorIdle
    /\ ReportIdle
    /\ ParserIdle

\* Document::new(path, text)
DocumentNew ==
    /\ ~built
    /\ lines' = DocumentLines(text)
    /\ built' = TRUE
    /\ UNCHANGED <<reportVars, src, text, call, rangeVars, cursorVars>>
    /\ UNCHANGED parserVars

\* Position(p).line(&document)
Line ==
    /\ built
    /\ \E p \in Positions :
         /\ p <= Len(text) + MaxBeyond
         /\ call' = [op |-> "line", p |-> p, result |-> PositionLine(p, lines)]
    /\ UNCHANGED <<reportVars, src, text, lines, built, rangeVars, cursorVars>>
    /\ UNCHANGED parserVars

\* Position(p).character(&document)
Character ==
    /\ built
    /\ \E p \in Positions :
         /\ p <= Len(text) + MaxBeyond
         /\ call' = [op |-> "character", p |-> p,
                     result |-> PositionCharacter(p, text, lines)]
    /\ UNCHANGED <<reportVars, src, text, lines, built, rangeVars, cursorVars>>
    /\ UNCHANGED parserVars

NextDoc == DocumentNew \/ Line \/ Character

SpecDoc == InitDoc /\ [][NextDoc]_vars

(* ------------------------- Document claims ----------------------------- *)

\* A byte at index k (1-based) ends a newline sequence: a `\n` (alone or
\* closing `\r\n`), or a `\r` that no `\n` follows.
EndsNewline(bytes, k) ==
    \/ bytes[k] = ByteLF
    \/ bytes[k] = ByteCR /\ ~(k < Len(bytes) /\ bytes[k + 1] = ByteLF)

RECURSIVE NewlineEnds(_, _)
\* The offsets immediately after each newline sequence of bytes[k..], ascending.
NewlineEnds(bytes, k) ==
    IF k > Len(bytes) THEN <<>>
    ELSE IF EndsNewline(bytes, k) THEN <<k>> \o NewlineEnds(bytes, k + 1)
    ELSE NewlineEnds(bytes, k + 1)

\* C8: the line index built by Document::new holds exactly one entry per
\* newline sequence (`\n`, a `\r` not followed by `\n`, or `\r\n` counted
\* once), the offset immediately after it, wherever the sequence stands.
C8_LineIndexPerNewline == built => lines = NewlineEnds(text, 1)

\* C9: Position::line returns the number of line-start entries that are
\* less than or equal to the position, inside or beyond the text.
C9_LineCountsLineStarts ==
    call.op = "line" =>
        call.result = Cardinality({k \in 1..Len(lines) : lines[k] <= call.p})

\* C9 witness: a query at exactly the second line start of a document.
C9_Witness ==
    /\ call.op = "line"
    /\ Len(lines) >= 2
    /\ call.p = lines[2]
    /\ call.result = 2

RECURSIVE Utf8Len(_)
\* The UTF-8 length of a sequence of characters.
Utf8Len(s) == IF s = <<>> THEN 0 ELSE LenUtf8(Head(s)) + Utf8Len(Tail(s))

\* The byte offsets at which character j of s begins and ends.
CharBegin(s, j) == Utf8Len(SubSeq(s, 1, j - 1))
CharEnd(s, j) == Utf8Len(SubSeq(s, 1, j))

\* The start of the line of p: the greatest line start not after p, or 0.
LineStartOf(p, ls) ==
    LET before == {ls[k] : k \in {k \in 1..Len(ls) : ls[k] <= p}}
    IN  IF before = {} THEN 0 ELSE CHOOSE m \in before : \A n \in before : n <= m

RECURSIVE SumUtf16(_, _)
\* The UTF-16 lengths of the characters of s whose indices are in js, summed.
SumUtf16(s, js) ==
    IF js = {} THEN 0
    ELSE LET j == CHOOSE j \in js : TRUE
         IN  LenUtf16(s[j]) + SumUtf16(s, js \ {j})

\* The UTF-16 units of the characters lying wholly between the start of p's
\* line and p, plus 1 when p lies strictly inside a character.
Utf16Column(s, p, ls) ==
    LET start  == LineStartOf(p, ls)
        whole  == {j \in 1..Len(s) : start <= CharBegin(s, j) /\ CharEnd(s, j) <= p}
        inside == \E j \in 1..Len(s) : CharBegin(s, j) < p /\ p < CharEnd(s, j)
    IN  SumUtf16(s, whole) + (IF inside THEN 1 ELSE 0)

\* C10: for a position within the text, Position::character is the sum of
\* the UTF-16 lengths of the characters wholly between the start of the
\* position's line and the position, plus 1 when the position lies strictly
\* inside a multi-byte character; a line start has character 0.
C10_CharacterCountsUtf16 ==
    (call.op = "character" /\ call.p <= Len(text)) =>
        /\ call.result = Utf16Column(src, call.p, lines)
        /\ (call.p = LineStartOf(call.p, lines) => call.result = 0)

\* C10 witness: a position inside a 4-byte character that follows a whole
\* 4-byte character on a line after the first.
C10_Witness ==
    /\ call.op = "character"
    /\ src = <<"LF", "U1F701", "U1F701">>
    /\ call.p = 7
    /\ call.result = 3

\* The start of the last line of a text: the offset after its last newline
\* sequence, or 0 when it has none.
LastLineStart(bytes) ==
    LET ends == NewlineEnds(bytes, 1)
    IN  IF ends = <<>> THEN 0 ELSE ends[Len(ends)]

\* C11: for a position past the end of the text, Position::line is the last
\* line and Position::character is the excess over the text length plus the
\* UTF-16 length of the whole last line (0 when the text ends with a
\* newline); neither result goes below zero.
C11_BeyondEndExtrapolated ==
    (built /\ call.p > Len(text)) =>
        /\ call.op = "line" =>
             call.result = Len(NewlineEnds(text, 1))
        /\ call.op = "character" =>
             /\ call.result >= 0
             /\ call.result =
                  (call.p - Len(text))
                  + SumUtf16(src, {j \in 1..Len(src) :
                                     CharBegin(src, j) >= LastLineStart(text)})

(* ------------------------- u32 arithmetic ------------------------------ *)

\* 2^16: a u32 is held as hi * Half + lo.
Half == 65536

\* a <= b on u32
U32Le(a, b) == a.hi < b.hi \/ (a.hi = b.hi /\ a.lo <= b.lo)

\* a + b on u32: the sum modulo 2^32 and whether it overflowed.
U32Add(a, b) ==
    LET lo == a.lo + b.lo
        hi == a.hi + b.hi + (lo \div Half)
    IN  [value |-> U32(hi % Half, lo % Half), overflow |-> hi >= Half]

\* a - b on u32: the difference modulo 2^32 and whether it overflowed.
U32Sub(a, b) ==
    LET lo == a.lo - b.lo
        hi == a.hi - b.hi - (IF lo < 0 THEN 1 ELSE 0)
    IN  [value |-> U32(hi % Half, lo % Half), overflow |-> hi < 0]

\* The u32 values operations are called with: those near 0, near 2^16 and
\* near 2^32 - 1.
U32Samples ==
    LET near == (0..MaxNear) \cup ((Half - 1 - MaxNear)..(Half - 1))
    IN  {U32(hi, lo) : hi \in {0, Half - 1}, lo \in near}

(* ------------------------- Range --------------------------------------- *)

\* Range::new
RangeNew(start, length) == [start |-> start, length |-> length]

\* Mutant of RangeBetween: the positions are not put in order.
RangeBetweenNoSwap(a, b) ==
    [value |-> [start |-> a, length |-> U32Sub(b, a).value],
     overflow |-> U32Sub(b, a).overflow]

\* Range::between: the range and whether a subtraction overflowed.
RangeBetween(a, b) ==
    IF U32Le(a, b)
    THEN [value |-> [start |-> a, length |-> U32Sub(b, a).value],
          overflow |-> U32Sub(b, a).overflow]
    ELSE [value |-> [start |-> b, length |-> U32Sub(a, b).value],
          overflow |-> U32Sub(a, b).overflow]

\* Range::start
RangeStart(r) == r.start

\* Range::end: the position and whether the addition overflowed.
RangeEnd(r) == U32Add(r.start, r.length)

(* ------------------------- SpecRange ----------------------------------- *)

InitRange ==
    /\ range = [start |-> Zero, length |-> Zero]
    /\ rangeCall = [op |-> "none", a |-> Zero, b |-> Zero, result |-> Zero,
                    panicked |-> FALSE]
    /\ overflowChecks \in BOOLEAN
    /\ src = <<>>
    /\ text = <<>>
    /\ lines = <<>>
    /\ built = FALSE
    /\ call = NoCall
    /\ CursorIdle
    /\ ReportIdle
    /\ ParserIdle

\* An arithmetic overflow panics in a build with overflow checks and wraps in
\* a build without them.
Overflowed(r) == r.overflow /\ overflowChecks

\* Range::new(start, length)
New ==
    /\ \E start, length \in U32Samples :
         /\ range' = RangeNew(start, length)
         /\ rangeCall' = [op |-> "new", a |-> start, b |-> length,
                          result |-> Zero, panicked |-> FALSE]
    /\ UNCHANGED <<reportVars, src, text, lines, built, call, overflowChecks, cursorVars>>
    /\ UNCHANGED parserVars

\* Range::between(start, end)
Between ==
    /\ \E a, b \in U32Samples :
         LET r == RangeBetween(a, b)
         IN  /\ range' = IF Overflowed(r) THEN range ELSE r.value
             /\ rangeCall' = [op |-> "between", a |-> a, b |-> b,
                              result |-> Zero, panicked |-> Overflowed(r)]
    /\ UNCHANGED <<reportVars, src, text, lines, built, call, overflowChecks, cursorVars>>
    /\ UNCHANGED parserVars

\* A Range has been constructed.
HasRange == rangeCall.op # "none" /\ ~(rangeCall.op = "between" /\ rangeCall.panicked)

\* range.start()
Start ==
    /\ HasRange
    /\ rangeCall' = [op |-> "start", a |-> Zero, b |-> Zero,
                     result |-> RangeStart(range), panicked |-> FALSE]
    /\ UNCHANGED <<reportVars, src, text, lines, built, call, range, overflowChecks,
                   cursorVars>>
    /\ UNCHANGED parserVars

\* range.end()
End ==
    /\ HasRange
    /\ LET r == RangeEnd(range)
       IN  rangeCall' = [op |-> "end", a |-> Zero, b |-> Zero,
                         result |-> IF Overflowed(r) THEN Zero ELSE r.value,
                         panicked |-> Overflowed(r)]
    /\ UNCHANGED <<reportVars, src, text, lines, built, call, range, overflowChecks,
                   cursorVars>>
    /\ UNCHANGED parserVars

NextRange == New \/ Between \/ Start \/ End

SpecRange == InitRange /\ [][NextRange]_vars

(* ------------------------- Range claims -------------------------------- *)

\* C12: for every Range built by Range::new from any u32 start and length,
\* Range::end returns start + length without overflow, and the result is
\* greater than or equal to Range::start.
C12_EndIsStartPlusLength ==
    rangeCall.op = "end" =>
        /\ ~rangeCall.panicked
        /\ U32Le(RangeStart(range), rangeCall.result)
        /\ U32Sub(rangeCall.result, range.start) =
               [value |-> range.length, overflow |-> FALSE]

\* C13: Range::between does not depend on the order of its arguments; its
\* start is the lesser position, its end the greater one, its length their
\* distance, and no subtraction underflows.
C13_BetweenNormalizes ==
    rangeCall.op = "between" =>
        LET a == rangeCall.a
            b == rangeCall.b
            min == IF U32Le(a, b) THEN a ELSE b
            max == IF U32Le(a, b) THEN b ELSE a
        IN  /\ ~rangeCall.panicked
            /\ RangeBetween(b, a) = [value |-> range, overflow |-> FALSE]
            /\ RangeStart(range) = min
            /\ RangeEnd(range) = [value |-> max, overflow |-> FALSE]
            /\ U32Add(min, range.length) = [value |-> max, overflow |-> FALSE]

\* C13 witness: between called with the greater position first, the two a
\* carry apart.
C13_Witness ==
    /\ rangeCall.op = "between"
    /\ rangeCall.a = U32(Half - 1, 0)
    /\ rangeCall.b = U32(0, 1)
    /\ range = [start |-> U32(0, 1), length |-> U32(Half - 2, Half - 1)]

(* ------------------------- DocumentChars ------------------------------- *)

\* Option::<char>::None
NoChar == "none"

\* The character whose encoding begins at byte offset k of valid UTF-8.
DecodeAt(bytes, k) ==
    CHOOSE c \in Chars :
        /\ k + LenUtf8(c) <= Len(bytes)
        /\ SubSeq(bytes, k + 1, k + LenUtf8(c)) = Utf8(c)

\* Mutant of CharsNext: an iterator that returns none once at its end and
\* then starts over.
CharsNextRestarts(bytes, k) ==
    IF k = Len(bytes) \/ Len(bytes) = 0
    THEN [char |-> NoChar, chars |-> k + 1]
    ELSE LET at == IF k > Len(bytes) THEN 0 ELSE k
         IN  [char |-> DecodeAt(bytes, at),
              chars |-> at + LenUtf8(DecodeAt(bytes, at))]

\* Chars::next of an iterator at byte offset k: the character and the
\* iterator's new offset. At the end it returns none and stays there.
CharsNext(bytes, k) ==
    IF k >= Len(bytes) THEN [char |-> NoChar, chars |-> k]
    ELSE [char |-> DecodeAt(bytes, k),
          chars |-> k + LenUtf8(DecodeAt(bytes, k))]

\* Document::chars: the lookahead is <<>> for None, <<l1>> for
\* Lookahead1(l1) and <<l1, l2>> for Lookahead2(l1, l2).
DocumentChars == [chars |-> 0, position |-> 0, lookahead |-> <<>>]

\* `position += c.len_utf8()` when a character was returned.
Advanced(d, next) ==
    IF next # NoChar THEN [d EXCEPT !.position = @ + LenUtf8(next)] ELSE d

\* Mutant of DocumentCharsAdvance: the second peeked character is dropped.
AdvanceDropsSecond(bytes, d) ==
    IF d.lookahead = <<>>
    THEN LET n == CharsNext(bytes, d.chars)
         IN  [d |-> Advanced([d EXCEPT !.chars = n.chars], n.char),
              result |-> n.char]
    ELSE [d |-> Advanced([d EXCEPT !.lookahead = <<>>], d.lookahead[1]),
          result |-> d.lookahead[1]]

\* Mutant of DocumentCharsAdvance: position counts characters.
AdvanceCountsChars(bytes, d) ==
    LET step(e, next) ==
            IF next # NoChar THEN [e EXCEPT !.position = @ + 1] ELSE e
    IN  IF d.lookahead = <<>>
        THEN LET n == CharsNext(bytes, d.chars)
             IN  [d |-> step([d EXCEPT !.chars = n.chars], n.char),
                  result |-> n.char]
        ELSE [d |-> step([d EXCEPT !.lookahead = Tail(@)], d.lookahead[1]),
              result |-> d.lookahead[1]]

\* DocumentChars::advance: the cursor afterwards and the value returned.
DocumentCharsAdvance(bytes, d) ==
    IF d.lookahead = <<>>
    THEN LET n == CharsNext(bytes, d.chars)
         IN  [d |-> Advanced([d EXCEPT !.chars = n.chars], n.char),
              result |-> n.char]
    ELSE IF Len(d.lookahead) = 1
    THEN [d |-> Advanced([d EXCEPT !.lookahead = <<>>], d.lookahead[1]),
          result |-> d.lookahead[1]]
    ELSE [d |-> Advanced([d EXCEPT !.lookahead = <<d.lookahead[2]>>],
                         d.lookahead[1]),
          result |-> d.lookahead[1]]

\* DocumentChars::lookahead
DocumentCharsLookahead(bytes, d) ==
    IF d.lookahead = <<>>
    THEN LET n == CharsNext(bytes, d.chars)
         IN  [d |-> [d EXCEPT !.chars = n.chars, !.lookahead = <<n.char>>],
              result |-> n.char]
    ELSE [d |-> d, result |-> d.lookahead[1]]

\* Mutant of DocumentCharsLookahead2: from an empty buffer the two characters
\* pulled are not kept.
Lookahead2Unbuffered(bytes, d) ==
    IF d.lookahead = <<>>
    THEN LET n1 == CharsNext(bytes, d.chars)
             n2 == CharsNext(bytes, n1.chars)
         IN  [d |-> [d EXCEPT !.chars = n2.chars], result |-> n2.char]
    ELSE IF Len(d.lookahead) = 1
    THEN LET n2 == CharsNext(bytes, d.chars)
         IN  [d |-> [d EXCEPT !.chars = n2.chars,
                              !.lookahead = <<d.lookahead[1], n2.char>>],
              result |-> n2.char]
    ELSE [d |-> d, result |-> d.lookahead[2]]

\* Mutant of DocumentCharsLookahead2: with one character peeked, that
\* character is returned.
Lookahead2ReturnsFirst(bytes, d) ==
    IF d.lookahead = <<>>
    THEN LET n1 == CharsNext(bytes, d.chars)
             n2 == CharsNext(bytes, n1.chars)
         IN  [d |-> [d EXCEPT !.chars = n2.chars,
                              !.lookahead = <<n1.char, n2.char>>],
              result |-> n2.char]
    ELSE IF Len(d.lookahead) = 1
    THEN LET n2 == CharsNext(bytes, d.chars)
         IN  [d |-> [d EXCEPT !.chars = n2.chars,
                              !.lookahead = <<d.lookahead[1], n2.char>>],
              result |-> d.lookahead[1]]
    ELSE [d |-> d, result |-> d.lookahead[2]]

\* DocumentChars::lookahead2
DocumentCharsLookahead2(bytes, d) ==
    IF d.lookahead = <<>>
    THEN LET n1 == CharsNext(bytes, d.chars)
             n2 == CharsNext(bytes, n1.chars)
         IN  [d |-> [d EXCEPT !.chars = n2.chars,
                              !.lookahead = <<n1.char, n2.char>>],
              result |-> n2.char]
    ELSE IF Len(d.lookahead) = 1
    THEN LET n2 == CharsNext(bytes, d.chars)
         IN  [d |-> [d EXCEPT !.chars = n2.chars,
                              !.lookahead = <<d.lookahead[1], n2.char>>],
              result |-> n2.char]
    ELSE [d |-> d, result |-> d.lookahead[2]]

\* Mutant of DocumentCharsAdvanceChar: the character is consumed whatever it
\* is.
AdvanceCharAlways(bytes, d, c) ==
    LET l == DocumentCharsLookahead(bytes, d)
    IN  [d |-> DocumentCharsAdvance(bytes, l.d).d, result |-> l.result = c]

\* DocumentChars::advance_char
DocumentCharsAdvanceChar(bytes, d, c) ==
    LET l == DocumentCharsLookahead(bytes, d)
    IN  IF l.result = c
        THEN [d |-> DocumentCharsAdvance(bytes, l.d).d, result |-> TRUE]
        ELSE [d |-> l.d, result |-> FALSE]

\* The tests lookahead_is is called with, and the characters each accepts.
Tests == {"is_newline", "is_ascii"}

Accepts(f) == IF f = "is_newline" THEN {"LF", "CR"} ELSE {"a", "LF", "CR"}

\* DocumentChars::lookahead_is
DocumentCharsLookaheadIs(bytes, d, f) ==
    LET l == DocumentCharsLookahead(bytes, d)
    IN  [d |-> l.d,
         result |-> IF l.result = NoChar THEN FALSE ELSE l.result \in Accepts(f)]

(* ------------------------- SpecChars ----------------------------------- *)

\* The cursor as one value.
Cursor == [chars |-> chars, position |-> position, lookahead |-> lookahead]

\* document.chars() of a document built from any text
InitChars ==
    /\ src \in Strings
    /\ text = Encode(src)
    /\ lines = DocumentLines(text)
    /\ built = TRUE
    /\ call = NoCall
    /\ chars = DocumentChars.chars
    /\ position = DocumentChars.position
    /\ lookahead = DocumentChars.lookahead
    /\ returned = <<>>
    /\ ended = FALSE
    /\ charsCall = [op |-> "none", c |-> "", result |-> ""]
    /\ RangeIdle
    /\ ReportIdle
    /\ ParserIdle

\* The cursor becomes r.d and the call is recorded; a consuming call adds
\* the character it consumed to `returned`.
Called(op, c, r, got) ==
    /\ chars' = r.d.chars
    /\ position' = r.d.position
    /\ lookahead' = r.d.lookahead
    /\ charsCall' = [op |-> op, c |-> c, result |-> r.result]
    /\ returned' = IF got # NoChar THEN Append(returned, got) ELSE returned
    /\ ended' = (ended \/ (op \in {"advance", "lookahead"} /\ r.result = NoChar))
    /\ UNCHANGED <<reportVars, src, text, lines, built, call, rangeVars>>
    /\ UNCHANGED parserVars

\* chars.advance()
Advance ==
    LET r == DocumentCharsAdvance(text, Cursor)
    IN  Called("advance", "", r, r.result)

\* chars.lookahead()
Lookahead ==
    Called("lookahead", "", DocumentCharsLookahead(text, Cursor), NoChar)

\* chars.lookahead2()
Lookahead2 ==
    Called("lookahead2", "", DocumentCharsLookahead2(text, Cursor), NoChar)

\* chars.advance_char(c)
AdvanceChar ==
    \E c \in Chars :
        LET r == DocumentCharsAdvanceChar(text, Cursor, c)
        IN  Called("advance_char", c, r, IF r.result THEN c ELSE NoChar)

\* chars.lookahead_is(f)
LookaheadIs ==
    \E f \in Tests :
        Called("lookahead_is", f, DocumentCharsLookaheadIs(text, Cursor, f),
               NoChar)

NextChars == Advance \/ Lookahead \/ Lookahead2 \/ AdvanceChar \/ LookaheadIs

SpecChars == InitChars /\ [][NextChars]_vars

(* ------------------------- DocumentChars claims ------------------------ *)

RECURSIVE DecodeFrom(_, _)
\* The characters an iterator at byte offset k has still to yield.
DecodeFrom(bytes, k) ==
    IF k >= Len(bytes) THEN <<>>
    ELSE <<DecodeAt(bytes, k)>> \o DecodeFrom(bytes, k + LenUtf8(DecodeAt(bytes, k)))

\* The characters the cursor has still to return: those peeked, oldest
\* first, then those its iterator has still to yield.
Pending == SelectSeq(lookahead, LAMBDA c : c # NoChar) \o DecodeFrom(text, chars)

\* The i-th character still to be returned, or none.
PendingAt(i) == IF i <= Len(Pending) THEN Pending[i] ELSE NoChar

\* A peeked none means the iterator is at its end and nothing follows it in
\* the buffer.
NoneIsLast ==
    \A i \in 1..Len(lookahead) :
        lookahead[i] = NoChar =>
            /\ chars = Len(text)
            /\ \A j \in i..Len(lookahead) : lookahead[j] = NoChar

\* C14: whatever calls were made, the characters consuming calls have
\* returned, followed by those peeked (oldest first) and those not yet
\* pulled, are the characters of the text in order, each once.
C14_ReturnsTextInOrder ==
    /\ returned \o Pending = src
    /\ NoneIsLast
    /\ (charsCall.op = "advance" /\ charsCall.result # NoChar) =>
           charsCall.result = src[Len(returned)]

\* C14 witness: the whole of a three-character text has been returned, the
\* last character by an advance that followed a lookahead2.
C14_Witness ==
    /\ Len(src) = 3
    /\ returned = src
    /\ charsCall.op = "advance"
    /\ charsCall.result = src[3]
    /\ lookahead = <<NoChar>>

\* C15: once advance or lookahead has returned no character, every later
\* advance, lookahead and lookahead2 returns no character and position
\* equals the text length.
C15_EndIsPermanent ==
    ended =>
        /\ charsCall.op \in {"advance", "lookahead", "lookahead2"} =>
               charsCall.result = NoChar
        /\ charsCall.op \in {"advance_char", "lookahead_is"} =>
               charsCall.result = FALSE
        /\ position = Len(text)

\* C15 witness: after the end was seen, a lookahead2 (which cannot itself
\* mark the end) answered from a buffer holding two peeked nones.
C15_Witness ==
    /\ ended
    /\ Len(src) >= 2
    /\ charsCall.op = "lookahead2"
    /\ charsCall.result = NoChar
    /\ lookahead = <<NoChar, NoChar>>

\* C16: a lookahead or lookahead2 call leaves position, the characters
\* already returned and the characters still to be returned unchanged, and
\* returns the first (lookahead) or second (lookahead2) character still to be
\* returned, so repeating it without an advance returns the same value.
C16_LookaheadDoesNotConsume ==
    [][charsCall'.op \in {"lookahead", "lookahead2"} =>
          /\ position' = position
          /\ returned' = returned
          /\ Pending' = Pending
          /\ charsCall'.result =
                 IF charsCall'.op = "lookahead" THEN PendingAt(1) ELSE PendingAt(2)
          /\ charsCall.op = charsCall'.op =>
                 charsCall'.result = charsCall.result]_vars

\* C16 witness: a lookahead answered while two characters were peeked, after
\* a character was consumed.
C16_Witness ==
    /\ charsCall.op = "lookahead"
    /\ Len(lookahead) = 2
    /\ lookahead[2] # NoChar
    /\ charsCall.result = lookahead[1]
    /\ Len(returned) = 1

\* C17: position is the sum of the UTF-8 lengths of the characters consuming
\* calls have returned; peeked characters are not counted, position never
\* exceeds the text length and equals it once every character is consumed.
C17_PositionCountsConsumedBytes ==
    /\ position = Utf8Len(returned)
    /\ position <= Len(text)
    /\ returned = src => position = Len(text)

\* C17 witness: one 4-byte character consumed, two more characters peeked.
C17_Witness ==
    /\ returned = <<"U1F701">>
    /\ position = 4
    /\ Len(lookahead) = 2
    /\ lookahead[2] # NoChar
    /\ chars > position

\* What an advance_char(c) call that returns true does: it consumes the next
\* character, which is c.
AdvanceCharConsumes ==
    /\ PendingAt(1) = charsCall'.c
    /\ returned' = Append(returned, charsCall'.c)
    /\ Pending' = Tail(Pending)
    /\ position' = position + LenUtf8(charsCall'.c)

\* C18 as stated: advance_char(c) returns true and consumes exactly one
\* character iff the next unconsumed character is c; otherwise it returns
\* false and position, the lookahead buffer and the characters still to be
\* returned are as before the call.
C18_AdvanceCharUntouchedOnFalse ==
    [][charsCall'.op = "advance_char" =>
          /\ charsCall'.result = (PendingAt(1) = charsCall'.c)
          /\ charsCall'.result => AdvanceCharConsumes
          /\ ~charsCall'.result =>
                 /\ position' = position
                 /\ returned' = returned
                 /\ Pending' = Pending
                 /\ lookahead' = lookahead]_vars

\* C18 amended: advance_char(c) returns true and consumes exactly one
\* character iff the next unconsumed character is c; otherwise it returns
\* false and leaves position and the characters still to be returned as they
\* were, while an empty lookahead buffer now holds the peeked next character
\* (or the peeked end of input) and a non-empty one is unchanged.
C18_AdvanceCharPeeksOnFalse ==
    [][charsCall'.op = "advance_char" =>
          /\ charsCall'.result = (PendingAt(1) = charsCall'.c)
          /\ charsCall'.result => AdvanceCharConsumes
          /\ ~charsCall'.result =>
                 /\ position' = position
                 /\ returned' = returned
                 /\ Pending' = Pending
                 /\ lookahead' = IF lookahead = <<>> THEN <<PendingAt(1)>>
                                  ELSE lookahead]_vars

\* C18 witness: advance_char of a character other than the next one, made
\* on a fresh cursor, returned false and left the next character peeked.
C18_Witness ==
    /\ charsCall.op = "advance_char"
    /\ charsCall.result = FALSE
    /\ charsCall.c = "LF"
    /\ returned = <<>>
    /\ position = 0
    /\ lookahead = <<"a">>

\* C19: lookahead2 returns the second character still to be returned (none
\* when fewer than two remain) and consumes nothing; right after it returned
\* x, lookahead returns the first character still to be returned, and after
\* one advance lookahead returns x.
C19_Lookahead2IsSecond ==
    [][charsCall'.op = "lookahead2" =>
          /\ charsCall'.result = PendingAt(2)
          /\ position' = position
          /\ returned' = returned
          /\ Pending' = Pending
          /\ DocumentCharsLookahead(text', Cursor').result = PendingAt(1)
          /\ DocumentCharsLookahead(
                 text', DocumentCharsAdvance(text', Cursor').d).result =
                     charsCall'.result]_vars

\* C19 witness: lookahead2 returned the last character of a three-character
\* text after the first was consumed.
C19_Witness ==
    /\ charsCall.op = "lookahead2"
    /\ Len(src) = 3
    /\ Len(returned) = 1
    /\ charsCall.result = src[3]
    /\ lookahead = <<src[2], src[3]>>

(* ------------------------- SpecCommaList ------------------------------- *)

\* parse_comma_list(Parser::parse_expression, is `)`) entered by a caller
\* that waits for the list, as parse_expression does after the `(` of a call.
InitCommaList ==
    /\ tokens = <<>>
    /\ consumed = 0
    /\ recoverable = EmptyMap
    /\ stack = <<Frame("caller", "arguments", "", ""),
                 Frame("parse_comma_list", "loop", ")", "parse_expression")>>
    /\ status = "running"
    /\ fault = ""
    /\ module = None
    /\ diagnostics = <<>>
    /\ DocIdle

\* parse_comma_list returned Ok(items) to its caller; `module` holds the list.
CommaListReturned ==
    /\ At("caller", "arguments")
    /\ Top.kids # <<>>
    /\ status' = "done"
    /\ module' = Top.kids[1]
    /\ stack' = <<>>
    /\ UNCHANGED <<tokens, consumed, recoverable, fault, diagnostics, docVars>>

NextCommaList ==
    \/ ParseCommaList
    \/ CommaListComma
    \/ CommaListReturned
    \/ ParseExpression
    \/ ConditionalConsequent
    \/ ConditionalAlternate
    \/ ExpressionBlock
    \/ WrappedParenRight
    \/ ExpressionExtensions
    \/ PropertyIdentifier
    \/ CallParenRight
    \/ ParseBlock
    \/ BlockBraceRight
    \/ ParseItemList
    \/ ParseItem
    \/ ParseStatement
    \/ RecoverAt
    \/ RecoverAtExit
    \/ ActuallyParseStatement
    \/ BindingEquals
    \/ StatementSemicolon
    \/ ParsePattern

SpecCommaList == InitCommaList /\ [][NextCommaList]_vars

(* ------------------------- parse_comma_list claims --------------------- *)

\* A token that is an item by itself.
IsSimpleItem(t) ==
    t.type \in {"Identifier", "Number"} \/ IsGlyph(t, "true") \/ IsGlyph(t, "false")

\* ts begins a well-formed list of one-token items: items separated by
\* single commas, an optional trailing comma, then `)` and nothing after.
SimpleListPrefix(ts) ==
    \A i \in 1..Len(ts) :
        /\ IsSimpleItem(ts[i]) \/ IsGlyph(ts[i], ",") \/ IsGlyph(ts[i], ")")
        /\ IsSimpleItem(ts[i]) => (i = 1 \/ IsGlyph(ts[i - 1], ","))
        /\ IsGlyph(ts[i], ",") => (i > 1 /\ IsSimpleItem(ts[i - 1]))
        /\ IsGlyph(ts[i], ")") => i = Len(ts)

\* The one-token items of ts, in order.
SimpleItems(ts) == SelectSeq(ts, IsSimpleItem)

\* C20: parse_comma_list does not fail on a well-formed list; it returns
\* the items in order, each but possibly the last with its comma, the last
\* with a comma exactly when a trailing comma was written, having consumed
\* the list and nothing else: the terminator is the lexer's lookahead.
C20_CommaListItemsInOrder ==
    /\ status = "panicked" => ~SimpleListPrefix(tokens)
    /\ status = "done" =>
         LET items == module.kids
             n     == Len(items)
             read  == SubSeq(tokens, 1, consumed)
         IN  /\ module.kind = "CommaList"
             /\ Len(tokens) = consumed + 1
             /\ IsGlyph(tokens[consumed + 1], ")")
             /\ IntoTokens(module) = read
             /\ \A i \in 1..n :
                  /\ items[i].kind = "CommaListItem"
                  /\ Len(items[i].kids) = 2
                  /\ items[i].kids[1].kind \notin {"None", "Token"}
                  /\ items[i].kids[2] # None =>
                         /\ items[i].kids[2].kind = "Token"
                         /\ IsGlyph(items[i].kids[2].tok, ",")
                  /\ i < n => items[i].kids[2] # None
             /\ n > 0 =>
                  (items[n].kids[2] # None <=> IsGlyph(tokens[consumed], ","))
             /\ SimpleListPrefix(tokens) =>
                  /\ n = Len(SimpleItems(tokens))
                  /\ \A i \in 1..n :
                       IntoTokens(items[i].kids[1]) = <<SimpleItems(tokens)[i]>>

\* C20 witness: `a, b,` before `)` returned as two items, each with its
\* comma.
C20_Witness ==
    /\ status = "done"
    /\ Len(tokens) = 5
    /\ SimpleListPrefix(tokens)
    /\ Len(module.kids) = 2
    /\ module.kids[2].kids[2] # None
    /\ consumed = 4

\* C21: when parse_comma_list finds, after an item, a token that is neither
\* a comma nor the terminator, it reports a diagnostic and goes on: the parse
\* keeps running with the item kept, it does not abort.
C21_MissingCommaRecovered ==
    [][(/\ At("parse_comma_list", "comma")
        /\ ~IsGlyph(tokens'[consumed + 1], ",")
        /\ ~Until(Top.glyph, tokens'[consumed + 1]))
       => /\ status' = "running"
          /\ Len(diagnostics') = Len(diagnostics) + 1
          /\ stack' # <<>>]_vars

(* ------------------------- Lexer --------------------------------------- *)

\* Document::start / Document::end
DocumentStart == 0
DocumentEnd(bytes) == Len(bytes)

\* Leading trivia: the line breaks are the whitespace among Chars.
IsTrivia(c) == c \in {"LF", "CR"}

RECURSIVE SkipTrivia(_, _)
\* The cursor after the trivia in front of it was consumed.
SkipTrivia(bytes, d) ==
    LET l == DocumentCharsLookahead(bytes, d)
    IN  IF l.result # NoChar /\ IsTrivia(l.result)
        THEN SkipTrivia(bytes, DocumentCharsAdvance(bytes, l.d).d)
        ELSE l.d

RECURSIVE TakeContent(_, _)
\* The cursor after the significant characters in front of it were consumed.
TakeContent(bytes, d) ==
    LET l == DocumentCharsLookahead(bytes, d)
    IN  IF l.result # NoChar /\ ~IsTrivia(l.result)
        THEN TakeContent(bytes, DocumentCharsAdvance(bytes, l.d).d)
        ELSE l.d

\* The next token of a lexer whose cursor is d, and the cursor afterwards:
\* the full range starts before the leading trivia, the trimmed range after
\* it; at the end of the characters the token is the end-of-input token.
NextToken(bytes, d) ==
    LET trivia  == SkipTrivia(bytes, d)
        content == TakeContent(bytes, trivia)
    IN  [d |-> content,
         token |-> [type |-> IF content.position = trivia.position
                             THEN "End" ELSE "Identifier",
                    full_start |-> d.position,
                    start |-> trivia.position,
                    end |-> content.position]]

RECURSIVE ChainFault(_, _, _)
\* The assertions of parse over the tokens ts from prev_position on: the
\* assertion that fails, or "" when none does.
ChainFault(ts, prev_position, end) ==
    IF ts = <<>>
    THEN IF prev_position = end THEN "" ELSE "assertion failed mod.rs:46"
    ELSE IF prev_position # Head(ts).full_start
    THEN "assertion failed mod.rs:38"
    ELSE ChainFault(Tail(ts), Head(ts).end, end)

(* ------------------------- SpecLex ------------------------------------- *)

\* Lexer::new(&diagnostics, &document) for a document of any text; the
\* history of cursor calls is not recorded here.
InitLex ==
    /\ src \in Strings
    /\ text = Encode(src)
    /\ lines = DocumentLines(text)
    /\ built = TRUE
    /\ call = NoCall
    /\ RangeIdle
    /\ CursorIdle
    /\ ReportIdle
    /\ tokens = <<>>
    /\ consumed = 0
    /\ recoverable = EmptyMap
    /\ stack = <<>>
    /\ status = "running"
    /\ fault = ""
    /\ module = None
    /\ diagnostics = <<>>

\* The end-of-input token has been lexed.
LexedAll == tokens # <<>> /\ tokens[Len(tokens)].type = "End"

\* Lexer::tokens: one more token.
LexerNext ==
    /\ status = "running"
    /\ ~LexedAll
    /\ LET n == NextToken(text, Cursor)
       IN  /\ tokens' = Append(tokens, n.token)
           /\ chars' = n.d.chars
           /\ position' = n.d.position
           /\ lookahead' = n.d.lookahead
    /\ UNCHANGED <<reportVars, src, text, lines, built, call, rangeVars, returned, ended,
                   charsCall>>
    /\ UNCHANGED <<consumed, recoverable, stack, status, fault, module,
                   diagnostics>>

\* parse, debug assertions: the token ranges chain from the start of the
\* document to its end.
SelfCheck ==
    /\ status = "running"
    /\ LexedAll
    /\ fault' = ChainFault(tokens, DocumentStart, DocumentEnd(text))
    /\ status' = IF fault' = "" THEN "done" ELSE "panicked"
    /\ UNCHANGED <<tokens, consumed, recoverable, stack, module, diagnostics>>
    /\ UNCHANGED docVars

NextLex == LexerNext \/ SelfCheck

SpecLex == InitLex /\ [][NextLex]_vars

(* ------------------------- Lexer claims -------------------------------- *)

StrictlyIncreasingWithin(ls, n) ==
    /\ \A k \in 1..Len(ls) : 0 < ls[k] /\ ls[k] <= n
    /\ \A k \in 1..(Len(ls) - 1) : ls[k] < ls[k + 1]

\* C23: the line index Document::new builds is strictly increasing with
\* every entry in (0, text length], and no operation changes it afterwards.
C23_LineIndexSorted ==
    [][/\ built' => StrictlyIncreasingWithin(lines', Len(text'))
       /\ built => lines' = lines]_vars

\* C23 witness: a line query made on a document whose index holds three
\* consecutive line starts.
C23_Witness ==
    /\ built
    /\ src = <<"LF", "CR", "LF">>
    /\ lines = <<1, 2, 3>>
    /\ call.op = "line"

(* ------------------------- Parser claims, continued -------------------- *)

\* C24: the top-level item list returns to parse_module only with the
\* end-of-input token as the lookahead; the token parse_module then takes is
\* that token (its unreachable!() is never reached), and it is the last
\* token consumed: when parse returns, every token lexed has been consumed
\* and only the last one is the end-of-input token.
C24_ParseConsumesAllTokens ==
    /\ fault # "unreachable parser.rs:55"
    /\ At("parse_module", "end") =>
         /\ Len(tokens) = consumed + 1
         /\ IsEnd(tokens[consumed + 1])
    /\ status = "done" =>
         /\ consumed = Len(tokens)
         /\ \A i \in 1..Len(tokens) : IsEnd(tokens[i]) <=> i = Len(tokens)
         /\ module.kids[Len(module.kids)] = Leaf(tokens[consumed])

\* C24 witness: a parse that returned after consuming a statement and the
\* end-of-input token.
C24_Witness ==
    /\ status = "done"
    /\ Len(tokens) = 3
    /\ consumed = 3
    /\ IsGlyph(tokens[2], ";")

(* ------------------------- glyph utilities ----------------------------- *)

\* Lexer::advance on a stream ts of which n tokens are consumed and whose
\* next token is lexed: the token handed out and the new count.
LexerAdvance(ts, n) == [token |-> ts[n + 1], consumed |-> n + 1]

\* Mutant of TryParseGlyph: the lexer is advanced whatever the lookahead is.
TryParseGlyphAlwaysAdvances(ts, n, g) ==
    LET a == LexerAdvance(ts, n)
    IN  IF IsGlyph(ts[n + 1], g)
        THEN [consumed |-> a.consumed, result |-> Leaf(a.token), fault |-> ""]
        ELSE [consumed |-> a.consumed, result |-> None, fault |-> ""]

\* Parser::try_parse_glyph, the lookahead ts[n + 1] lexed: the new count of
\* consumed tokens, Some(token) or None, and the panic if any.
TryParseGlyph(ts, n, g) ==
    IF IsGlyph(ts[n + 1], g)
    THEN LET a == LexerAdvance(ts, n)
         IN  IF a.token.type = "Glyph"
             THEN [consumed |-> a.consumed, result |-> Leaf(a.token),
                   fault |-> ""]
             ELSE [consumed |-> a.consumed, result |-> None,
                   fault |-> "unreachable parser.rs:264"]
    ELSE [consumed |-> n, result |-> None, fault |-> ""]

\* Parser::parse_glyph
ParseGlyph(ts, n, g) ==
    LET a == LexerAdvance(ts, n)
    IN  IF GlyphParsed(a.token, g)
        THEN [consumed |-> a.consumed, result |-> Leaf(a.token), fault |-> ""]
        ELSE [consumed |-> a.consumed, result |-> None,
              fault |-> "unimplemented parser.rs:295"]

(* ------------------------- SpecGlyph ----------------------------------- *)

\* A parser over any token stream, with any glyphs in scope, about to call
\* its glyph utilities.
InitGlyph ==
    /\ tokens = <<>>
    /\ consumed = 0
    /\ recoverable \in RecoverMaps
    /\ stack = <<>>
    /\ status = "running"
    /\ fault = ""
    /\ module = None
    /\ diagnostics = <<>>
    /\ DocIdle

\* The call fn(g) returned r: the stack holds the frame of the call just
\* made, `module` what it returned.
GlyphCalled(fn, g, r) ==
    /\ consumed' = r.consumed
    /\ module' = r.result
    /\ fault' = r.fault
    /\ status' = IF r.fault = "" THEN "running" ELSE "panicked"
    /\ stack' = <<Frame(fn, "returned", g, "")>>
    /\ UNCHANGED <<recoverable, diagnostics, docVars>>

\* self.try_parse_glyph(g)
TryParseGlyphCall ==
    /\ status = "running"
    /\ \E g \in RecoverParses, t \in RecoverLookaheads :
         /\ tokens' = Lexed(t)
         /\ GlyphCalled("try_parse_glyph", g, TryParseGlyph(tokens', consumed, g))

\* self.parse_glyph(g)
ParseGlyphCall ==
    /\ status = "running"
    /\ \E g \in RecoverParses, t \in RecoverLookaheads :
         /\ tokens' = Lexed(t)
         /\ GlyphCalled("parse_glyph", g, ParseGlyph(tokens', consumed, g))

NextGlyph == TryParseGlyphCall \/ ParseGlyphCall

SpecGlyph == InitGlyph /\ [][NextGlyph]_vars

(* ------------------------- glyph utility claims ------------------------ *)

\* C25: try_parse_glyph(g) consumes exactly one token and returns it iff the
\* lookahead is the glyph g; otherwise it returns None and consumes nothing;
\* it never reaches its unreachable!() and leaves the recoverable map alone.
\* parse_glyph(g) always advances the lexer by exactly one token.
C25_TryParseGlyphConsumesOnMatch ==
    [][stack' # <<>> =>
          LET t == tokens'[consumed + 1]
              g == stack'[1].glyph
          IN  /\ stack'[1].fn = "try_parse_glyph" =>
                   /\ fault' = ""
                   /\ recoverable' = recoverable
                   /\ SubSeq(tokens', 1, Len(tokens)) = tokens
                   /\ IsGlyph(t, g) =>
                          (consumed' = consumed + 1 /\ module' = Leaf(t))
                   /\ ~IsGlyph(t, g) =>
                          (consumed' = consumed /\ module' = None)
              /\ stack'[1].fn = "parse_glyph" => consumed' = consumed + 1]_vars

\* C25 witness: try_parse_glyph returned None on a `;` it was not asked for,
\* after a parse_glyph had consumed a token.
C25_Witness ==
    /\ stack # <<>>
    /\ stack[1].fn = "try_parse_glyph"
    /\ stack[1].glyph = ")"
    /\ module = None
    /\ consumed = 1
    /\ Len(tokens) = 2
    /\ IsGlyph(tokens[2], ";")

(* ------------------------- loop termination ---------------------------- *)

\* SpecCommaList with every enabled step of the parser eventually taken: the
\* parser is one thread that runs until it returns or panics.
SpecCommaListLive == SpecCommaList /\ WF_vars(NextCommaList)

\* The frames of the two loops.
IsLoopFrame(frame) == frame.fn \in {"parse_item_list", "parse_comma_list"}

\* Every item a loop has gathered holds at least one token, and none holds
\* the end-of-input token.
LoopsConsume ==
    \A i \in 1..Len(stack) :
        IsLoopFrame(stack[i]) =>
            \A k \in 1..Len(stack[i].kids) :
                /\ IntoTokens(stack[i].kids[k]) # <<>>
                /\ \A j \in 1..Len(IntoTokens(stack[i].kids[k])) :
                       ~IsEnd(IntoTokens(stack[i].kids[k])[j])

Count(m, g) == IF g \in DOMAIN m THEN m[g] ELSE 0

\* The recover_at scopes for g that are entered and not yet left.
ActiveScopes(g) ==
    {i \in 1..Len(stack) : /\ stack[i].fn = "recover_at"
                           /\ stack[i].pc = "exit"
                           /\ stack[i].glyph = g}

\* C27: while the pattern of a binding is parsed both `=` and `;` are
\* recoverable; once the pattern parse has returned, before the `=` and the
\* value are parsed, the count of `=` is what it was before the pattern (`=`
\* is not recoverable on account of this binding); `;` stays recoverable
\* until the statement parse returns.
C27_BindingScopesOrdered ==
    [][/\ \A i \in 1..Len(stack') :
            /\ stack'[i].fn = "parse_pattern" =>
                   /\ "=" \in DOMAIN recoverable'
                   /\ ";" \in DOMAIN recoverable'
            /\ stack'[i].fn = "actually_parse_statement" =>
                   ";" \in DOMAIN recoverable'
            /\ (stack'[i].fn = "actually_parse_statement" /\ i = Len(stack')
                    /\ stack'[i].pc = "equals") =>
                   "=" \notin DOMAIN recoverable'
       /\ (At("recover_at", "exit") /\ Top.glyph = "=") =>
              /\ Count(recoverable', "=") = Count(Top.saved, "=")
              /\ Count(recoverable', ";") = Count(recoverable, ";")]_vars

\* C27 witness: the pattern of a binding inside a block has been parsed and
\* its `=` not yet: `;` is in scope twice, `=` not at all.
C27_Witness ==
    /\ At("actually_parse_statement", "equals")
    /\ Len(Top.kids) = 2
    /\ Count(recoverable, ";") = 2
    /\ "=" \notin DOMAIN recoverable

\* C28: the recoverable map holds no entry with count 0, and the count of
\* each glyph is the number of recover_at scopes for it that are entered
\* and not yet left; leaving an inner scope leaves the glyph recoverable
\* for the outer one. (A panic destroys the parser; see C5 for the map a
\* panic leaves behind.)
C28_CountsAreActiveScopes ==
    status # "panicked" =>
        /\ \A g \in DOMAIN recoverable : recoverable[g] > 0
        /\ \A g \in Glyphs : Count(recoverable, g) = Cardinality(ActiveScopes(g))

\* C28 witness: a statement inside a block inside a statement has returned:
\* the inner `;` scope is left and `;` is still recoverable for the outer.
C28_Witness ==
    /\ At("parse_item_list", "loop")
    /\ Top.glyph = "}"
    /\ Len(Top.kids) = 1
    /\ recoverable = MapInsert(EmptyMap, ";", 1)

(* ------------------------- coordinate order ---------------------------- *)

\* C29: coordinates are monotone in the byte offset: for the position p of
\* a query and every position q >= p, inside the text, inside a multi-byte
\* character or past the end, line(p) <= line(q), and when both are on the
\* same line character(p) <= character(q).
C29_CoordinatesMonotone ==
    \A q \in Positions :
        (call.op # "none" /\ call.p <= q /\ q <= Len(text) + MaxBeyond) =>
            /\ PositionLine(call.p, lines) <= PositionLine(q, lines)
            /\ call.op = "line" => call.result <= PositionLine(q, lines)
            /\ (call.op = "character"
                    /\ PositionLine(call.p, lines) = PositionLine(q, lines)) =>
                   call.result <= PositionCharacter(q, text, lines)

\* C29 witness: a character query three bytes into a 4-byte character, whose
\* column is 1 while the column after the character is 2.
C29_Witness ==
    /\ call.op = "character"
    /\ src = <<"a", "U1F701", "a">>
    /\ call.p = 4
    /\ call.result = 2
    /\ PositionCharacter(5, text, lines) = 3

(* ------------------------- DiagnosticsCollection ----------------------- *)

\* The diagnostics reported: the error messages the parser raises.
Diagnostics == {"UnexpectedSyntax", "UnexpectedEnding", "IdentifierNotFound"}

\* Rc::new(diagnostic) as the n-th allocation, and Rc::clone: a clone points
\* to the same allocation.
RcNew(n, d) == [id |-> n, value |-> d]
RcClone(rc) == rc

\* Mutant of Report: a diagnostic equal to one already held is not added
\* again; the reference to the one held is returned.
ReportOnce(ds, d) ==
    IF \E i \in 1..Len(ds) : ds[i].value = d
    THEN [diagnostics |-> ds,
          ref |-> ds[CHOOSE i \in 1..Len(ds) : ds[i].value = d]]
    ELSE [diagnostics |-> Append(ds, RcNew(Len(ds) + 1, d)),
          ref |-> RcNew(Len(ds) + 1, d)]

\* DiagnosticsCollection::report: the collection afterwards and the
\* DiagnosticRef returned.
Report(ds, d) ==
    LET diagnostic == RcNew(Len(ds) + 1, d)
    IN  [diagnostics |-> Append(ds, RcClone(diagnostic)), ref |-> diagnostic]

\* DiagnosticsCollection::is_empty
IsEmpty(ds) == Len(ds) = 0

\* Deref for DiagnosticRef
Deref(ref) == ref.value

(* ------------------------- SpecReport ---------------------------------- *)

\* DiagnosticsCollection::new()
InitReport ==
    /\ diagnostics = <<>>
    /\ reported = <<>>
    /\ reportCall = [op |-> "none", d |-> "", ref |-> [id |-> 0, value |-> ""],
                     result |-> FALSE]
    /\ tokens = <<>>
    /\ consumed = 0
    /\ recoverable = EmptyMap
    /\ stack = <<>>
    /\ status = "idle"
    /\ fault = ""
    /\ module = None
    /\ src = <<>>
    /\ text = <<>>
    /\ lines = <<>>
    /\ built = FALSE
    /\ call = NoCall
    /\ RangeIdle
    /\ CursorIdle

\* collection.report(diagnostic)
ReportCall ==
    /\ Len(reported) < MaxReports
    /\ \E d \in Diagnostics :
         LET r == Report(diagnostics, d)
         IN  /\ diagnostics' = r.diagnostics
             /\ reported' = Append(reported, d)
             /\ reportCall' = [op |-> "report", d |-> d, ref |-> r.ref,
                               result |-> FALSE]
    /\ UNCHANGED <<tokens, consumed, recoverable, stack, status, fault, module>>
    /\ UNCHANGED <<src, text, lines, built, call, rangeVars, cursorVars>>

\* collection.is_empty()
IsEmptyCall ==
    /\ reportCall' = [op |-> "is_empty", d |-> "",
                      ref |-> [id |-> 0, value |-> ""],
                      result |-> IsEmpty(diagnostics)]
    /\ UNCHANGED <<diagnostics, reported>>
    /\ UNCHANGED <<tokens, consumed, recoverable, stack, status, fault, module>>
    /\ UNCHANGED <<src, text, lines, built, call, rangeVars, cursorVars>>

NextReport == ReportCall \/ IsEmptyCall

SpecReport == InitReport /\ [][NextReport]_vars

(* ------------------------- DiagnosticsCollection claims ---------------- *)

\* C30: report appends: the collection holds exactly the diagnostics
\* reported, one entry per call, in call order, each in an allocation of its
\* own; is_empty is true exactly when report was never called; and the
\* reference a report call returns designates the diagnostic passed to it,
\* which is the entry it added.
C30_ReportAppends ==
    /\ Len(diagnostics) = Len(reported)
    /\ \A i \in 1..Len(diagnostics) : Deref(diagnostics[i]) = reported[i]
    /\ \A i, j \in 1..Len(diagnostics) :
         diagnostics[i].id = diagnostics[j].id => i = j
    /\ reportCall.op = "is_empty" => (reportCall.result <=> reported = <<>>)
    /\ reportCall.op = "report" =>
         /\ Deref(reportCall.ref) = reportCall.d
         /\ reportCall.ref = diagnostics[Len(diagnostics)]

\* C30 witness: the same diagnostic reported twice with another in between;
\* the collection holds all three.
C30_Witness ==
    /\ reportCall.op = "report"
    /\ reported = <<"UnexpectedEnding", "UnexpectedSyntax", "UnexpectedEnding">>
    /\ Len(diagnostics) = 3
    /\ Deref(reportCall.ref) = "UnexpectedEnding"

====
